---- MODULE Spec2Model ----
(***************************************************************************)
(* Request scheduler and paged KV cache manager of izwi-core               *)
(* (crates/izwi-core/src/engine/scheduler.rs, engine/kv_cache.rs).         *)
(*                                                                         *)
(* Spec      : Scheduler + KVCacheManager driven by the engine step loop.  *)
(* SpecAlloc : a stand-alone BlockAllocator called with arbitrary          *)
(*             arguments.                                                  *)
(***************************************************************************)
EXTENDS Integers, Sequences, FiniteSets, TLC

VARIABLES
    config,            \* SchedulerConfig + KVCacheConfig chosen at construction
    waiting_fcfs,      \* Scheduler.waiting_fcfs      : VecDeque<RequestId>
    waiting_priority,  \* Scheduler.waiting_priority  : BinaryHeap<PriorityRequest>
    running,           \* Scheduler.running           : HashMap<RequestId, RunningRequest>
    requests,          \* Scheduler.requests          : HashMap<RequestId, RequestMetadata>
    next_sequence_id,  \* Scheduler.next_sequence_id
    kv_cache,          \* the KVCacheManager the scheduler borrows
    clock,             \* the monotonic clock read by Instant::now()
    result,            \* the ScheduleResult returned by the last schedule call
    pending,           \* items of result the driver has not reported yet
    alloc,             \* a stand-alone BlockAllocator (SpecAlloc)
    last_call          \* the last scheduler call: [op, id, ret], ret what abort_request returned

sched_vars == <<waiting_fcfs, waiting_priority, running, requests, next_sequence_id>>
driver_vars == <<result, pending>>
vars == <<config, waiting_fcfs, waiting_priority, running, requests,
          next_sequence_id, kv_cache, clock, result, pending, alloc, last_call>>

----------------------------------------------------------------------------
(* Bounds of the model *)

\* request ids are 1..NumIds
NumIds == 2
\* add_request is called at most MaxSeq times (caps next_sequence_id)
MaxSeq == 2
\* the clock advances at most to MaxClock
MaxClock == 1
\* the free list of the stand-alone allocator is followed up to this length
MaxFreeLen == 4
\* largest n passed to the stand-alone allocator's allocate
MaxAllocN == 2

Ids == 1..NumIds

\* prompt lengths, priorities and max_tokens of the requests that are added
PromptLens == {16, 20}
Priorities == {1, 5}
MaxTokensChoices == {2}

\* the block size blocks_needed_for_tokens uses
HardCodedBlockSize == 16

FCFS == "FCFS"
Priority == "Priority"

\* The configurations the engine is constructed with.
Configs ==
    { \* one request at a time, a pool of one block
      [policy |-> FCFS, max_batch_size |-> 1, max_tokens_per_step |-> 64,
       enable_chunked_prefill |-> FALSE, chunked_prefill_threshold |-> 8,
       enable_preemption |-> FALSE, block_size |-> 16, max_blocks |-> 1],
      \* full prefill, then decodes
      [policy |-> FCFS, max_batch_size |-> 2, max_tokens_per_step |-> 64,
       enable_chunked_prefill |-> FALSE, chunked_prefill_threshold |-> 8,
       enable_preemption |-> FALSE, block_size |-> 16, max_blocks |-> 3],
      \* chunked prefill, budget of one chunk, small blocks
      [policy |-> FCFS, max_batch_size |-> 2, max_tokens_per_step |-> 8,
       enable_chunked_prefill |-> TRUE, chunked_prefill_threshold |-> 8,
       enable_preemption |-> FALSE, block_size |-> 4, max_blocks |-> 2],
      \* token budget below the longer prompts
      [policy |-> FCFS, max_batch_size |-> 2, max_tokens_per_step |-> 17,
       enable_chunked_prefill |-> FALSE, chunked_prefill_threshold |-> 8,
       enable_preemption |-> TRUE, block_size |-> 16, max_blocks |-> 2],
      \* priority policy with preemption enabled, a pool of two blocks
      [policy |-> Priority, max_batch_size |-> 2, max_tokens_per_step |-> 64,
       enable_chunked_prefill |-> FALSE, chunked_prefill_threshold |-> 8,
       enable_preemption |-> TRUE, block_size |-> 16, max_blocks |-> 2],
      \* priority policy, one item per step
      [policy |-> Priority, max_batch_size |-> 1, max_tokens_per_step |-> 64,
       enable_chunked_prefill |-> TRUE, chunked_prefill_threshold |-> 16,
       enable_preemption |-> FALSE, block_size |-> 16, max_blocks |-> 3],
      \* a pool without blocks, which KVCacheManager::new accepts
      [policy |-> FCFS, max_batch_size |-> 2, max_tokens_per_step |-> 64,
       enable_chunked_prefill |-> FALSE, chunked_prefill_threshold |-> 8,
       enable_preemption |-> FALSE, block_size |-> 16, max_blocks |-> 0],
      \* chunked prefill with a threshold of no tokens
      [policy |-> FCFS, max_batch_size |-> 2, max_tokens_per_step |-> 64,
       enable_chunked_prefill |-> TRUE, chunked_prefill_threshold |-> 0,
       enable_preemption |-> FALSE, block_size |-> 16, max_blocks |-> 1] }

----------------------------------------------------------------------------
(* Helpers: maps with a changing key set, usize arithmetic, sequences *)

MapPut(f, k, v) == [x \in (DOMAIN f) \cup {k} |-> IF x = k THEN v ELSE f[x]]
MapRemove(f, k) == [x \in (DOMAIN f) \ {k} |-> f[x]]
EmptyMap == [x \in {} |-> 0]

\* usize::saturating_sub
SatSub(a, b) == IF a >= b THEN a - b ELSE 0

Min(a, b) == IF a <= b THEN a ELSE b

Range(s) == {s[i] : i \in 1..Len(s)}

RemoveAt(s, i) == SubSeq(s, 1, i - 1) \o SubSeq(s, i + 1, Len(s))

\* mutant of Orderings: every element is yielded twice
OrderingsTwice(S) ==
    {o \o o : o \in {f \in [1..Cardinality(S) -> S] :
                        \A i, j \in 1..Cardinality(S) : i # j => f[i] # f[j]}}

\* all orderings of a finite set, as sequences
RECURSIVE Orderings(_)
Orderings(S) ==
    IF S = {} THEN {<<>>}
    ELSE UNION {{<<x>> \o o : o \in Orderings(S \ {x})} : x \in S}

----------------------------------------------------------------------------
(* KVBlock, BlockAllocator (kv_cache.rs) *)

NoHash == "None"

KVBlockNew(id) ==
    [id |-> id, num_tokens |-> 0, ref_count |-> 1, content_hash |-> NoHash]

KVBlockReset(b) ==
    [b EXCEPT !.num_tokens = 0, !.ref_count = 1, !.content_hash = NoHash]

AllocatorNew(max_blocks) ==
    [blocks |-> [i \in 0..(max_blocks - 1) |-> KVBlockNew(i)],
     free_list |-> [i \in 1..max_blocks |-> i - 1],
     num_allocated |-> 0]

AllocatorCanAllocate(a, n) == Len(a.free_list) >= n

AllocatorNumFree(a) == Len(a.free_list)

AllocatorNumAllocated(a) == a.num_allocated

\* the body of allocate's for loop, run k more times
RECURSIVE AllocateLoop(_, _, _)
AllocateLoop(a, block_ids, k) ==
    IF k = 0 THEN [alloc |-> a, ids |-> block_ids]
    ELSE IF a.free_list = <<>> THEN AllocateLoop(a, block_ids, k - 1)
    ELSE LET id == Head(a.free_list)
         IN AllocateLoop(
                [a EXCEPT !.free_list = Tail(a.free_list),
                          !.blocks[id] = KVBlockReset(a.blocks[id]),
                          !.num_allocated = a.num_allocated + 1],
                Append(block_ids, id), k - 1)

\* allocate: [ok, ids, alloc]; ok = FALSE is None
AllocatorAllocate(a, n) ==
    IF ~AllocatorCanAllocate(a, n)
    THEN [ok |-> FALSE, ids |-> <<>>, alloc |-> a]
    ELSE LET r == AllocateLoop(a, <<>>, n)
         IN [ok |-> TRUE, ids |-> r.ids, alloc |-> r.alloc]

\* mutant of FreeListPush: a freed id does not come back to the free list
FreeListKeep(free_list, block_id) == free_list

\* the push of a freed id onto the free list
FreeListPush(free_list, block_id) == Append(free_list, block_id)

\* mutant of AllocatorFree: the allocated count is not taken down
AllocatorFreeKeepsCount(a, block_id) ==
    IF block_id \in DOMAIN a.blocks
    THEN LET rc == SatSub(a.blocks[block_id].ref_count, 1)
             a1 == [a EXCEPT !.blocks[block_id].ref_count = rc]
         IN IF rc = 0
            THEN [a1 EXCEPT !.free_list = FreeListPush(a.free_list, block_id)]
            ELSE a1
    ELSE a

AllocatorFree(a, block_id) ==
    IF block_id \in DOMAIN a.blocks
    THEN LET rc == SatSub(a.blocks[block_id].ref_count, 1)
             a1 == [a EXCEPT !.blocks[block_id].ref_count = rc]
         IN IF rc = 0
            THEN [a1 EXCEPT !.free_list = FreeListPush(a.free_list, block_id),
                            !.num_allocated = SatSub(a.num_allocated, 1)]
            ELSE a1
    ELSE a

\* mutant of AllocatorFreeBlocks: only the first id is freed
AllocatorFreeBlocksFirst(a, block_ids) ==
    IF block_ids = <<>> THEN a ELSE AllocatorFree(a, Head(block_ids))

RECURSIVE AllocatorFreeBlocks(_, _)
AllocatorFreeBlocks(a, block_ids) ==
    IF block_ids = <<>> THEN a
    ELSE AllocatorFreeBlocks(AllocatorFree(a, Head(block_ids)), Tail(block_ids))

----------------------------------------------------------------------------
(* KVCacheConfig, KVCacheManager (kv_cache.rs) *)

\* KVCacheConfig::blocks_for_tokens, integer division as in usize
BlocksForTokens(block_size, num_tokens) ==
    (num_tokens + block_size - 1) \div block_size

KvNew(max_blocks) ==
    [allocator |-> AllocatorNew(max_blocks),
     request_blocks |-> EmptyMap,
     block_table |-> EmptyMap]

KvCanAllocate(kv, n) == AllocatorCanAllocate(kv.allocator, n)

\* mutant of EntryExtend: the new ids take the place of the table
EntryExtendReplace(m, request_id, block_ids) == MapPut(m, request_id, block_ids)

\* entry(request_id).or_insert_with(Vec::new).extend(block_ids)
EntryExtend(m, request_id, block_ids) ==
    MapPut(m, request_id,
           (IF request_id \in DOMAIN m THEN m[request_id] ELSE <<>>) \o block_ids)

\* allocate: [kv, ids]
KvAllocate(kv, request_id, num_blocks) ==
    LET r == AllocatorAllocate(kv.allocator, num_blocks)
    IN IF r.ok
       THEN [kv |-> [allocator |-> r.alloc,
                     request_blocks |->
                         EntryExtend(kv.request_blocks, request_id, r.ids),
                     block_table |->
                         EntryExtend(kv.block_table, request_id, r.ids)],
             ids |-> r.ids]
       ELSE [kv |-> kv, ids |-> <<>>]

KvExtend(kv, request_id, additional_blocks) ==
    KvAllocate(kv, request_id, additional_blocks)

\* mutant of KvFree: the blocks are released and the tables kept
KvFreeKeepsTable(kv, request_id) ==
    [kv EXCEPT !.allocator =
        IF request_id \in DOMAIN kv.request_blocks
        THEN AllocatorFreeBlocks(kv.allocator, kv.request_blocks[request_id])
        ELSE kv.allocator]

KvFree(kv, request_id) ==
    LET a == IF request_id \in DOMAIN kv.request_blocks
             THEN AllocatorFreeBlocks(kv.allocator, kv.request_blocks[request_id])
             ELSE kv.allocator
    IN [allocator |-> a,
        request_blocks |-> MapRemove(kv.request_blocks, request_id),
        block_table |-> MapRemove(kv.block_table, request_id)]

KvGetBlockTable(kv, request_id) ==
    IF request_id \in DOMAIN kv.block_table THEN kv.block_table[request_id] ELSE <<>>

KvBlocksForTokens(num_tokens) == BlocksForTokens(config.block_size, num_tokens)

\* KVCacheManager::stats, without the byte counts
KvStats(kv) ==
    [total_blocks |-> config.max_blocks,
     allocated_blocks |-> AllocatorNumAllocated(kv.allocator),
     free_blocks |-> AllocatorNumFree(kv.allocator),
     num_sequences |-> Cardinality(DOMAIN kv.request_blocks)]

----------------------------------------------------------------------------
(* Scheduler (scheduler.rs) *)

\* Ord for PriorityRequest: 1 Greater, 0 Equal, -1 Less
PriorityRequestCmp(self, other) ==
    IF self.priority > other.priority THEN 1
    ELSE IF self.priority < other.priority THEN -1
    ELSE IF other.arrival_time > self.arrival_time THEN 1
    ELSE IF other.arrival_time < self.arrival_time THEN -1
    ELSE 0

\* mutant of EmptyResult: a result that starts with one token counted
EmptyResultOneToken ==
    [decode_requests |-> <<>>, prefill_requests |-> <<>>,
     preempted_requests |-> <<>>, total_tokens |-> 1, blocks_allocated |-> 0]

\* mutant of EmptyResult: the count of allocated blocks starts at one
EmptyResultOneBlock ==
    [decode_requests |-> <<>>, prefill_requests |-> <<>>,
     preempted_requests |-> <<>>, total_tokens |-> 0, blocks_allocated |-> 1]

EmptyResult ==
    [decode_requests |-> <<>>, prefill_requests |-> <<>>,
     preempted_requests |-> <<>>, total_tokens |-> 0, blocks_allocated |-> 0]

HasWork(r) == r.decode_requests # <<>> \/ r.prefill_requests # <<>>

\* Scheduler::blocks_needed_for_tokens
BlocksNeededForTokens(num_tokens) ==
    (num_tokens + HardCodedBlockSize - 1) \div HardCodedBlockSize

\* mutant of FcfsPush: the request goes to the front of the queue
FcfsPushFront(fcfs, request_id) == <<request_id>> \o fcfs

\* VecDeque::push_back on the FCFS queue (add_request, line 237)
FcfsPush(fcfs, request_id) == Append(fcfs, request_id)

\* PartialOrd::le, derived from cmp
PriorityRequestLe(a, b) == PriorityRequestCmp(a, b) <= 0

\* std BinaryHeap over a Vec; data[i] here is data[i - 1] there, the parent of
\* position pos is pos \div 2 and its children are 2 * pos and 2 * pos + 1.

\* sift_up with the element e held out of the hole at pos
RECURSIVE HeapSiftUp(_, _, _, _)
HeapSiftUp(data, e, start, pos) ==
    IF pos > start /\ ~PriorityRequestLe(e, data[pos \div 2])
    THEN HeapSiftUp([data EXCEPT ![pos] = data[pos \div 2]], e, start, pos \div 2)
    ELSE [data EXCEPT ![pos] = e]

\* BinaryHeap::push
HeapPush(data, item) ==
    HeapSiftUp(Append(data, item), item, 1, Len(data) + 1)

\* sift_down_to_bottom: the hole goes down along the greater children, then
\* the held element is sifted up from there
RECURSIVE HeapSiftDownToBottom(_, _, _, _)
HeapSiftDownToBottom(data, e, start, pos) ==
    LET child == 2 * pos
    IN IF child + 1 <= Len(data)
       THEN LET c == IF PriorityRequestLe(data[child], data[child + 1])
                     THEN child + 1 ELSE child
            IN HeapSiftDownToBottom([data EXCEPT ![pos] = data[c]], e, start, c)
       ELSE IF child = Len(data)
       THEN HeapSiftUp([data EXCEPT ![pos] = data[child]], e, start, child)
       ELSE HeapSiftUp(data, e, start, pos)

\* BinaryHeap::pop, the heap that is left
HeapPop(data) ==
    IF Len(data) <= 1 THEN <<>>
    ELSE LET item == data[Len(data)]
             rest == SubSeq(data, 1, Len(data) - 1)
         IN HeapSiftDownToBottom(rest, item, 1, 1)

\* sift_down_range(pos, len) with the element e held out of the hole
RECURSIVE HeapSiftDown(_, _, _)
HeapSiftDown(data, e, pos) ==
    LET child == 2 * pos
    IN IF child + 1 <= Len(data)
       THEN LET c == IF PriorityRequestLe(data[child], data[child + 1])
                     THEN child + 1 ELSE child
            IN IF PriorityRequestLe(data[c], e)
               THEN [data EXCEPT ![pos] = e]
               ELSE HeapSiftDown([data EXCEPT ![pos] = data[c]], e, c)
       ELSE IF child = Len(data) /\ PriorityRequestCmp(e, data[child]) < 0
       THEN [data EXCEPT ![pos] = data[child], ![child] = e]
       ELSE [data EXCEPT ![pos] = e]

\* rebuild: sift_down from position len / 2 down to the root
RECURSIVE HeapRebuildFrom(_, _)
HeapRebuildFrom(data, n) ==
    IF n = 0 THEN data
    ELSE HeapRebuildFrom(HeapSiftDown(data, data[n], n), n - 1)

\* BinaryHeap::retain(|r| r.request_id != request_id): the Vec is filtered and
\* the heap rebuilt when an entry went
HeapRetainNot(data, request_id) ==
    LET kept == SelectSeq(data, LAMBDA r : r.request_id # request_id)
    IN IF Len(kept) = Len(data) THEN data
       ELSE HeapRebuildFrom(kept, Len(kept) \div 2)

\* mutant of PeekWaiting: the last entry of the FCFS queue is looked at
PeekWaitingLast(fcfs, heap) ==
    IF config.policy = FCFS
    THEN (IF fcfs = <<>> THEN <<>> ELSE <<fcfs[Len(fcfs)]>>)
    ELSE (IF heap = <<>> THEN <<>> ELSE <<heap[1].request_id>>)

\* the head of the waiting queue of the active policy: <<id>> or <<>> (None)
PeekWaiting(fcfs, heap) ==
    IF config.policy = FCFS
    THEN (IF fcfs = <<>> THEN <<>> ELSE <<Head(fcfs)>>)
    ELSE (IF heap = <<>> THEN <<>> ELSE <<heap[1].request_id>>)

\* Scheduler::pop_from_waiting: [fcfs, heap]
PopFromWaiting(fcfs, heap) ==
    IF config.policy = FCFS
    THEN [fcfs |-> (IF fcfs = <<>> THEN <<>> ELSE Tail(fcfs)), heap |-> heap]
    ELSE [fcfs |-> fcfs, heap |-> HeapPop(heap)]

\* mutant of PrefillTokens: the prompt is not limited by the remaining budget
PrefillTokensNoClip(metadata, remaining_budget) ==
    IF config.enable_chunked_prefill
       /\ metadata.total_prompt_tokens > config.chunked_prefill_threshold
    THEN config.chunked_prefill_threshold
    ELSE metadata.total_prompt_tokens

\* the number of tokens of a prefill item (schedule, lines 330-341)
PrefillTokens(metadata, remaining_budget) ==
    LET num_tokens ==
            IF config.enable_chunked_prefill
               /\ metadata.total_prompt_tokens > config.chunked_prefill_threshold
            THEN config.chunked_prefill_threshold
            ELSE metadata.total_prompt_tokens
    IN Min(num_tokens, remaining_budget)

\* prefill_complete of the running state created at admission (line 364)
AdmitPrefillComplete(num_tokens, metadata) ==
    num_tokens >= metadata.total_prompt_tokens

\* mutant of DecodeLacksBlocks: no running request is skipped for lack of blocks
DecodeLacksNever(r, kv, num_tokens) == FALSE

\* whether the decode phase skips a running request for lack of blocks
DecodeLacksBlocks(r, kv, num_tokens) ==
    LET blocks_needed == BlocksNeededForTokens(r.num_tokens_processed + num_tokens)
    IN /\ blocks_needed > Len(r.block_ids)
       /\ ~KvCanAllocate(kv, blocks_needed - Len(r.block_ids))

\* mutant of BudgetLeft: the loops go on while tokens are left
BudgetLeftIgnoresBatch(remaining_batch, remaining_budget) ==
    remaining_budget > 0

\* whether the loops of schedule go on
BudgetLeft(remaining_batch, remaining_budget) ==
    remaining_batch > 0 /\ remaining_budget > 0

\* Phase 1: the for loop over self.running, visited in the order `order`.
\* st = [decode, remaining_budget, remaining_batch, total_tokens, visits];
\* visits counts the entries of self.running the loop has taken.
RECURSIVE DecodePhase(_, _, _)
DecodePhase(order, kv, st) ==
    IF order = <<>> THEN st
    ELSE IF ~BudgetLeft(st.remaining_batch, st.remaining_budget)
    THEN [st EXCEPT !.visits = st.visits + 1]
    ELSE LET request_id == Head(order)
             r == running[request_id]
             num_tokens == 1
         IN IF ~r.prefill_complete \/ DecodeLacksBlocks(r, kv, num_tokens)
            THEN DecodePhase(Tail(order), kv,
                    [st EXCEPT !.visits = st.visits + 1])
            ELSE DecodePhase(Tail(order), kv,
                    [decode |-> Append(st.decode,
                         [request_id |-> request_id,
                          sequence_id |-> r.sequence_id,
                          num_tokens |-> num_tokens,
                          is_prefill |-> FALSE,
                          block_ids |-> r.block_ids,
                          num_computed_tokens |-> r.num_tokens_processed]),
                     remaining_budget |-> SatSub(st.remaining_budget, num_tokens),
                     remaining_batch |-> st.remaining_batch - 1,
                     total_tokens |-> st.total_tokens + num_tokens,
                     visits |-> st.visits + 1])

\* mutant of AlreadyRunning: a waiting entry is never taken for a running one
AlreadyRunningNever(run, request_id) == FALSE

\* self.running.contains_key(&request_id): the waiting entry is of a request
\* that runs already
AlreadyRunning(run, request_id) == request_id \in DOMAIN run

\* Phase 2: the while loop over the waiting queue.
\* st = [fcfs, heap, running, kv, prefill, blocks_allocated, total_tokens,
\*       remaining_budget, remaining_batch, iterations];
\* iterations counts the times the body of the loop has been entered.
RECURSIVE PrefillPhase(_)
PrefillPhase(st) ==
    IF ~BudgetLeft(st.remaining_batch, st.remaining_budget) THEN st
    ELSE LET next == PeekWaiting(st.fcfs, st.heap)
             entered == st.iterations + 1
         IN IF next = <<>> THEN [st EXCEPT !.iterations = entered]
            ELSE LET request_id == next[1]
                     popped == PopFromWaiting(st.fcfs, st.heap)
                 IN IF request_id \notin DOMAIN requests
                       \/ AlreadyRunning(st.running, request_id)
                    THEN PrefillPhase(
                            [st EXCEPT !.fcfs = popped.fcfs, !.heap = popped.heap,
                                       !.iterations = entered])
                    ELSE LET metadata == requests[request_id]
                             num_tokens ==
                                 PrefillTokens(metadata, st.remaining_budget)
                             blocks_needed == BlocksNeededForTokens(num_tokens)
                         IN IF ~KvCanAllocate(st.kv, blocks_needed)
                            THEN [st EXCEPT !.iterations = entered]
                            ELSE LET a == KvAllocate(st.kv, request_id, blocks_needed)
                                     new_running ==
                                         [sequence_id |-> metadata.sequence_id,
                                          num_tokens_processed |-> 0,
                                          num_tokens_generated |-> 0,
                                          block_ids |-> a.ids,
                                          prefill_complete |->
                                              AdmitPrefillComplete(num_tokens, metadata)]
                                     item ==
                                         [request_id |-> request_id,
                                          sequence_id |-> metadata.sequence_id,
                                          num_tokens |-> num_tokens,
                                          is_prefill |-> TRUE,
                                          block_ids |-> a.ids,
                                          num_computed_tokens |-> 0]
                                 IN PrefillPhase(
                                     [fcfs |-> popped.fcfs,
                                      heap |-> popped.heap,
                                      running |->
                                          MapPut(st.running, request_id, new_running),
                                      kv |-> a.kv,
                                      prefill |-> Append(st.prefill, item),
                                      blocks_allocated |->
                                          st.blocks_allocated + Len(a.ids),
                                      total_tokens |-> st.total_tokens + num_tokens,
                                      remaining_budget |->
                                          SatSub(st.remaining_budget, num_tokens),
                                      remaining_batch |-> st.remaining_batch - 1,
                                      iterations |-> entered])

\* Scheduler::schedule: the scheduler and cache after the call, its result, and
\* what was left of the two budgets when it returned, and how often its two
\* loops ran
ScheduleOutcome(order) ==
    LET d == DecodePhase(order, kv_cache,
                [decode |-> <<>>,
                 remaining_budget |-> config.max_tokens_per_step,
                 remaining_batch |-> config.max_batch_size,
                 total_tokens |-> EmptyResult.total_tokens,
                 visits |-> 0])
        p == PrefillPhase(
                [fcfs |-> waiting_fcfs, heap |-> waiting_priority,
                 running |-> running, kv |-> kv_cache, prefill |-> <<>>,
                 blocks_allocated |-> EmptyResult.blocks_allocated,
                 total_tokens |-> d.total_tokens,
                 remaining_budget |-> d.remaining_budget,
                 remaining_batch |-> d.remaining_batch,
                 iterations |-> 0])
    IN [fcfs |-> p.fcfs, heap |-> p.heap, running |-> p.running, kv |-> p.kv,
        remaining_budget |-> p.remaining_budget,
        remaining_batch |-> p.remaining_batch,
        decode_visits |-> d.visits,
        prefill_iterations |-> p.iterations,
        result |-> [decode_requests |-> d.decode,
                    prefill_requests |-> p.prefill,
                    preempted_requests |-> EmptyResult.preempted_requests,
                    total_tokens |-> p.total_tokens,
                    blocks_allocated |-> p.blocks_allocated]]

ResultItems(r) == Range(r.decode_requests) \cup Range(r.prefill_requests)

----------------------------------------------------------------------------
(* State after construction *)

Call(op, id, ret) == [op |-> op, id |-> id, ret |-> ret]

Init ==
    /\ config \in Configs
    /\ waiting_fcfs = <<>>
    /\ waiting_priority = <<>>
    /\ running = EmptyMap
    /\ requests = EmptyMap
    /\ next_sequence_id = 0
    /\ kv_cache = KvNew(config.max_blocks)
    /\ clock = 0
    /\ result = EmptyResult
    /\ pending = {}
    /\ alloc = AllocatorNew(config.max_blocks)
    /\ last_call = Call("new", 0, FALSE)

----------------------------------------------------------------------------
(* Scheduler operations *)

\* the ids the scheduler holds anywhere
KnownIds ==
    (DOMAIN requests) \cup (DOMAIN running) \cup Range(waiting_fcfs)
        \cup {e.request_id : e \in Range(waiting_priority)}

\* Instant::now(): the clock does not go back
ClockReads == {t \in clock..(clock + 1) : t <= MaxClock}

\* mutant of NextSequenceId: the counter is not advanced
NextSequenceIdSame(n) == n

\* self.next_sequence_id += 1 (add_request, line 222)
NextSequenceId(n) == n + 1

\* Scheduler::add_request
AddRequestCall(id, priority, prompt, max_tokens, t) ==
    /\ next_sequence_id' = NextSequenceId(next_sequence_id)
    /\ requests' = MapPut(requests, id,
                      [request_id |-> id,
                       sequence_id |-> next_sequence_id,
                       priority |-> priority,
                       total_prompt_tokens |-> prompt,
                       max_tokens |-> max_tokens])
    /\ IF config.policy = FCFS
       THEN /\ waiting_fcfs' = FcfsPush(waiting_fcfs, id)
            /\ UNCHANGED <<waiting_priority, clock>>
       ELSE /\ waiting_priority' =
                   HeapPush(waiting_priority,
                            [request_id |-> id, priority |-> priority,
                             arrival_time |-> t])
            /\ clock' = t
            /\ UNCHANGED waiting_fcfs
    /\ last_call' = Call("add_request", id, FALSE)
    /\ UNCHANGED <<config, running, kv_cache, result, pending, alloc>>

\* add_request with a caller-chosen id no live request uses.  The engine loop
\* takes new requests, finishes and aborts between two steps.
AddRequest(id, priority, prompt, max_tokens, t) ==
    /\ pending = {}
    /\ next_sequence_id < MaxSeq
    /\ id \notin KnownIds
    /\ AddRequestCall(id, priority, prompt, max_tokens, t)

\* add_request with an id the scheduler holds already: the metadata is
\* replaced and one more entry is queued
AddRequestAgain(id, priority, prompt, max_tokens, t) ==
    /\ pending = {}
    /\ next_sequence_id < MaxSeq
    /\ id \in KnownIds
    /\ AddRequestCall(id, priority, prompt, max_tokens, t)

\* a running request that has produced its max_tokens is finished by the
\* driver before the next step
MustFinish(id) ==
    /\ id \in DOMAIN running
    /\ id \in DOMAIN requests
    /\ running[id].num_tokens_generated >= requests[id].max_tokens

\* schedule; order is the order in which the HashMap yields self.running
Schedule(order) ==
    /\ pending = {}
    /\ \A id \in Ids : ~MustFinish(id)
    /\ LET o == ScheduleOutcome(order)
       IN /\ waiting_fcfs' = o.fcfs
          /\ waiting_priority' = o.heap
          /\ running' = o.running
          /\ kv_cache' = o.kv
          /\ result' = o.result
          /\ pending' = ResultItems(o.result)
    /\ last_call' = Call("schedule", 0, FALSE)
    /\ UNCHANGED <<config, requests, next_sequence_id, clock, alloc>>

\* mutant of UpdateRunning: the two deltas are taken for each other
UpdateRunningSwapsDeltas(run, request_id, tokens_processed, tokens_generated, new_block_ids) ==
    IF request_id \in DOMAIN run
    THEN LET r == run[request_id]
             processed == r.num_tokens_processed + tokens_generated
         IN [run EXCEPT ![request_id] =
                [r EXCEPT !.num_tokens_processed = processed,
                          !.num_tokens_generated =
                              r.num_tokens_generated + tokens_processed,
                          !.block_ids = r.block_ids \o new_block_ids,
                          !.prefill_complete =
                              IF request_id \in DOMAIN requests
                                 /\ processed >= requests[request_id].total_prompt_tokens
                              THEN TRUE
                              ELSE r.prefill_complete]]
    ELSE run

\* mutant of UpdateRunning: an id that is not running gets a running state
UpdateRunningCreates(run, request_id, tokens_processed, tokens_generated, new_block_ids) ==
    MapPut(run, request_id,
           [sequence_id |-> 0,
            num_tokens_processed |-> tokens_processed,
            num_tokens_generated |-> tokens_generated,
            block_ids |-> new_block_ids,
            prefill_complete |-> FALSE])

\* mutant of UpdateRunning: the new block ids are not appended
UpdateRunningDropsBlocks(run, request_id, tokens_processed, tokens_generated, new_block_ids) ==
    IF request_id \in DOMAIN run
    THEN LET r == run[request_id]
             processed == r.num_tokens_processed + tokens_processed
         IN [run EXCEPT ![request_id] =
                [r EXCEPT !.num_tokens_processed = processed,
                          !.num_tokens_generated =
                              r.num_tokens_generated + tokens_generated,
                          !.prefill_complete =
                              IF request_id \in DOMAIN requests
                                 /\ processed >= requests[request_id].total_prompt_tokens
                              THEN TRUE
                              ELSE r.prefill_complete]]
    ELSE run

\* Scheduler::update_after_step on the running map
UpdateRunning(run, request_id, tokens_processed, tokens_generated, new_block_ids) ==
    IF request_id \in DOMAIN run
    THEN LET r == run[request_id]
             processed == r.num_tokens_processed + tokens_processed
         IN [run EXCEPT ![request_id] =
                [r EXCEPT !.num_tokens_processed = processed,
                          !.num_tokens_generated =
                              r.num_tokens_generated + tokens_generated,
                          !.block_ids = r.block_ids \o new_block_ids,
                          !.prefill_complete =
                              IF request_id \in DOMAIN requests
                                 /\ processed >= requests[request_id].total_prompt_tokens
                              THEN TRUE
                              ELSE r.prefill_complete]]
    ELSE run

\* The blocks the driver must add before it reports a decode item: what the
\* cache manager's block size asks for the tokens now computed, less the table.
DriverDeficit(item) ==
    IF ~item.is_prefill /\ item.request_id \in DOMAIN running
    THEN SatSub(KvBlocksForTokens(item.num_computed_tokens + item.num_tokens),
                Len(KvGetBlockTable(kv_cache, item.request_id)))
    ELSE 0

\* The driver reports one item of the last result: it extends the table of a
\* decode that crossed a block boundary and passes the new ids on.
UpdateAfterStep(item) ==
    /\ item \in pending
    /\ LET deficit == DriverDeficit(item)
           e == IF deficit > 0
                THEN KvExtend(kv_cache, item.request_id, deficit)
                ELSE [kv |-> kv_cache, ids |-> <<>>]
       IN /\ kv_cache' = e.kv
          /\ running' = UpdateRunning(running, item.request_id, item.num_tokens,
                            IF item.is_prefill THEN 0 ELSE item.num_tokens, e.ids)
    /\ pending' = pending \ {item}
    /\ result' = IF pending' = {} THEN EmptyResult ELSE result
    /\ last_call' = Call("update_after_step", item.request_id, FALSE)
    /\ UNCHANGED <<config, waiting_fcfs, waiting_priority, requests,
                   next_sequence_id, clock, alloc>>

FinishRequest(id) ==
    /\ pending = {}
    /\ running' = MapRemove(running, id)
    /\ kv_cache' = IF id \in DOMAIN running THEN KvFree(kv_cache, id) ELSE kv_cache
    /\ requests' = MapRemove(requests, id)
    /\ last_call' = Call("finish_request", id, FALSE)
    /\ UNCHANGED <<config, waiting_fcfs, waiting_priority, next_sequence_id,
                   clock, result, pending, alloc>>

\* mutant of AbortOutcome: true is returned for every request with metadata
AbortOutcomeRetKnown(s, id) ==
    [fcfs |-> SelectSeq(s.fcfs, LAMBDA x : x # id),
     heap |-> HeapRetainNot(s.heap, id),
     running |-> MapRemove(s.running, id),
     requests |-> MapRemove(s.requests, id),
     kv |-> IF id \in DOMAIN s.running THEN KvFree(s.kv, id) ELSE s.kv,
     ret |-> id \in DOMAIN s.requests]

\* mutant of AbortOutcome: the metadata of a running request is kept
AbortOutcomeKeepsMetadata(s, id) ==
    [fcfs |-> SelectSeq(s.fcfs, LAMBDA x : x # id),
     heap |-> HeapRetainNot(s.heap, id),
     running |-> MapRemove(s.running, id),
     requests |-> IF id \in DOMAIN s.running THEN s.requests
                  ELSE MapRemove(s.requests, id),
     kv |-> IF id \in DOMAIN s.running THEN KvFree(s.kv, id) ELSE s.kv,
     ret |-> id \in DOMAIN s.running]

\* Scheduler::abort_request on s = [fcfs, heap, running, requests, kv]: the
\* state after the call and the value it returns
AbortOutcome(s, id) ==
    [fcfs |-> SelectSeq(s.fcfs, LAMBDA x : x # id),
     heap |-> HeapRetainNot(s.heap, id),
     running |-> MapRemove(s.running, id),
     requests |-> MapRemove(s.requests, id),
     kv |-> IF id \in DOMAIN s.running THEN KvFree(s.kv, id) ELSE s.kv,
     ret |-> id \in DOMAIN s.running]

\* the scheduler and the cache manager, as abort_request takes them
SchedState ==
    [fcfs |-> waiting_fcfs, heap |-> waiting_priority, running |-> running,
     requests |-> requests, kv |-> kv_cache]

AbortRequest(id) ==
    /\ pending = {}
    /\ LET o == AbortOutcome(SchedState, id)
       IN /\ waiting_fcfs' = o.fcfs
          /\ waiting_priority' = o.heap
          /\ running' = o.running
          /\ kv_cache' = o.kv
          /\ requests' = o.requests
          /\ last_call' = Call("abort_request", id, o.ret)
    /\ UNCHANGED <<config, next_sequence_id, clock, result, pending, alloc>>

Next ==
    \/ \E id \in Ids, priority \in Priorities, prompt \in PromptLens,
          max_tokens \in MaxTokensChoices, t \in ClockReads :
          AddRequest(id, priority, prompt, max_tokens, t)
    \/ \E order \in Orderings(DOMAIN running) : Schedule(order)
    \/ \E item \in pending : UpdateAfterStep(item)
    \/ \E id \in Ids : FinishRequest(id)
    \/ \E id \in Ids : AbortRequest(id)

Spec == Init /\ [][Next]_vars

----------------------------------------------------------------------------
(* A stand-alone BlockAllocator, called with arbitrary arguments *)

sched_all == <<config, waiting_fcfs, waiting_priority, running, requests,
               next_sequence_id, kv_cache, clock, result, pending, last_call>>

\* block ids passed to free: every id of the pool and one past its end
FreeArgs == 0..config.max_blocks

AllocAllocate(n) ==
    /\ alloc' = AllocatorAllocate(alloc, n).alloc
    /\ UNCHANGED sched_all

AllocFree(block_id) ==
    /\ Len(alloc.free_list) < MaxFreeLen
    /\ alloc' = AllocatorFree(alloc, block_id)
    /\ UNCHANGED sched_all

AllocFreeBlocks(block_ids) ==
    /\ Len(alloc.free_list) + Len(block_ids) <= MaxFreeLen
    /\ alloc' = AllocatorFreeBlocks(alloc, block_ids)
    /\ UNCHANGED sched_all

NextAlloc ==
    \/ \E n \in 0..MaxAllocN : AllocAllocate(n)
    \/ \E block_id \in FreeArgs : AllocFree(block_id)
    \/ \E a, b \in FreeArgs : AllocFreeBlocks(<<a, b>>)

SpecAlloc == Init /\ [][NextAlloc]_vars

----------------------------------------------------------------------------
(* The scheduler with callers that may add an id more than once *)

NextDup ==
    \/ \E id \in Ids, priority \in Priorities, prompt \in PromptLens,
          max_tokens \in MaxTokensChoices, t \in ClockReads :
          AddRequest(id, priority, prompt, max_tokens, t)
    \/ \E id \in Ids, priority \in Priorities, prompt \in PromptLens,
          max_tokens \in MaxTokensChoices, t \in ClockReads :
          AddRequestAgain(id, priority, prompt, max_tokens, t)
    \/ \E order \in Orderings(DOMAIN running) : Schedule(order)
    \/ \E item \in pending : UpdateAfterStep(item)
    \/ \E id \in Ids : FinishRequest(id)
    \/ \E id \in Ids : AbortRequest(id)

SpecDup == Init /\ [][NextDup]_vars

----------------------------------------------------------------------------
(* Properties *)

RECURSIVE SumTokens(_)
SumTokens(items) ==
    IF items = <<>> THEN 0 ELSE Head(items).num_tokens + SumTokens(Tail(items))

ItemsOf(r) == r.decode_requests \o r.prefill_requests

NoRepeats(s) == \A i, j \in 1..Len(s) : i # j => s[i] # s[j]

\* a queue entry that stands for a request still waiting
IsWaiting(id) == id \in DOMAIN requests /\ id \notin DOMAIN running

WaitingIds ==
    {id \in Range(waiting_fcfs) \cup {e.request_id : e \in Range(waiting_priority)} :
        IsWaiting(id)}

\* C1: the block tables of distinct live requests share no block id, no id
\* occurs twice in one table, and no id of a table is in the free pool; this
\* holds of the cache manager's tables and of the scheduler's copies.
C1_BlockTablesDisjoint ==
    LET bt == kv_cache.block_table
        rb == kv_cache.request_blocks
        free == Range(kv_cache.allocator.free_list)
    IN /\ \A a \in DOMAIN bt :
            /\ NoRepeats(bt[a])
            /\ Range(bt[a]) \cap free = {}
            /\ \A b \in DOMAIN bt : a # b => Range(bt[a]) \cap Range(bt[b]) = {}
       /\ \A a \in DOMAIN rb :
            /\ NoRepeats(rb[a])
            /\ Range(rb[a]) \cap free = {}
            /\ \A b \in DOMAIN rb : a # b => Range(rb[a]) \cap Range(rb[b]) = {}
       /\ \A a \in DOMAIN running :
            /\ NoRepeats(running[a].block_ids)
            /\ Range(running[a].block_ids) \cap free = {}
            /\ \A b \in DOMAIN running :
                  a # b => Range(running[a].block_ids)
                              \cap Range(running[b].block_ids) = {}

\* two live requests hold blocks, one of them two blocks
C1_Witness ==
    \E a, b \in DOMAIN running :
        /\ a # b
        /\ a \in DOMAIN kv_cache.block_table /\ b \in DOMAIN kv_cache.block_table
        /\ kv_cache.block_table[a] # <<>>
        /\ Len(kv_cache.block_table[b]) >= 2

\* C2: free count + allocated count = max_blocks, for the stand-alone
\* allocator after any calls of allocate, free and free_blocks.
C2_FreePlusAllocated ==
    AllocatorNumFree(alloc) + AllocatorNumAllocated(alloc) = config.max_blocks

\* C3: the tokens of all items of a ScheduleResult sum to at most
\* max_tokens_per_step.
C3_TokenBudget ==
    SumTokens(ItemsOf(result)) <= config.max_tokens_per_step

\* a result that uses the whole budget, with a decode and a prefill that the
\* rest of the budget clipped
C3_Witness ==
    /\ SumTokens(ItemsOf(result)) = config.max_tokens_per_step
    /\ result.decode_requests # <<>>
    /\ \E i \in 1..Len(result.prefill_requests) :
          LET item == result.prefill_requests[i]
          IN /\ item.request_id \in DOMAIN requests
             /\ item.num_tokens < requests[item.request_id].total_prompt_tokens
             /\ ~config.enable_chunked_prefill

\* C4: a ScheduleResult holds at most max_batch_size items.
C4_BatchSize ==
    Len(result.decode_requests) + Len(result.prefill_requests)
        <= config.max_batch_size

\* a full batch, with tokens left in the budget and a request left waiting
\* whose prompt the cache could take
C4_Witness ==
    /\ Len(ItemsOf(result)) = config.max_batch_size
    /\ SumTokens(ItemsOf(result)) < config.max_tokens_per_step
    /\ \E w \in WaitingIds :
          KvCanAllocate(kv_cache,
                        BlocksNeededForTokens(requests[w].total_prompt_tokens))

\* C5: for every running request, prefill_complete holds exactly when
\* num_tokens_processed >= total_prompt_tokens.
C5_PrefillCompleteIff ==
    \A id \in DOMAIN running :
        id \in DOMAIN requests =>
            (running[id].prefill_complete
                <=> running[id].num_tokens_processed
                        >= requests[id].total_prompt_tokens)

\* C6: for every running request, the block table has at least
\* ceil(num_tokens_processed / block_size) entries, block_size being the cache
\* manager's.
C6_TableCoversProcessed ==
    \A id \in DOMAIN running :
        Len(running[id].block_ids)
            >= KvBlocksForTokens(running[id].num_tokens_processed)

\* C7: under FCFS requests become running in the order of add_request: the
\* prefill items of a result are in sequence-id order, and no request that is
\* still waiting after the call was added before one the call admitted.
C7_FcfsOrder ==
    config.policy = FCFS =>
        /\ \A i, j \in 1..Len(result.prefill_requests) :
              i < j => result.prefill_requests[i].sequence_id
                          < result.prefill_requests[j].sequence_id
        /\ \A i \in 1..Len(result.prefill_requests) :
              \A w \in WaitingIds :
                  requests[w].sequence_id > result.prefill_requests[i].sequence_id

\* a request was admitted while a later one with a higher priority waits
C7_Witness ==
    /\ config.policy = FCFS
    /\ \E i \in 1..Len(result.prefill_requests) :
          \E w \in WaitingIds :
              LET id == result.prefill_requests[i].request_id
              IN /\ id \in DOMAIN requests
                 /\ requests[w].priority > requests[id].priority

\* the total order of the priority policy: priority descending, arrival
\* ascending, request id ascending
Precedes(a, b) ==
    \/ a.priority > b.priority
    \/ a.priority = b.priority /\ a.arrival_time < b.arrival_time
    \/ a.priority = b.priority /\ a.arrival_time = b.arrival_time
          /\ a.request_id < b.request_id

PrefillPos(r, id) ==
    CHOOSE i \in 1..Len(r.prefill_requests) : r.prefill_requests[i].request_id = id

\* C8: under the priority policy, of two requests waiting at the start of a
\* schedule call the one that precedes in the total order is admitted first:
\* when the call admits b, it has admitted a before it.
C8_PriorityOrder ==
    [][config.policy = Priority =>
          \A i, j \in 1..Len(waiting_priority) :
              LET a == waiting_priority[i]
                  b == waiting_priority[j]
              IN (/\ IsWaiting(a.request_id) /\ IsWaiting(b.request_id)
                  /\ Precedes(a, b)
                  /\ b.request_id \in DOMAIN running')
                 => /\ a.request_id \in DOMAIN running'
                    /\ PrefillPos(result', a.request_id)
                          < PrefillPos(result', b.request_id)]_vars

\* C9: a request admitted with fewer tokens than its prompt gets further
\* prefill items: between two steps, when it is the only request and its
\* prompt is not yet processed, the next schedule call emits a prefill item
\* for it.
C9_ChunkedPrefillContinues ==
    \A id \in DOMAIN running :
        (/\ pending = {}
         /\ DOMAIN requests = {id}
         /\ ~running[id].prefill_complete
         /\ running[id].num_tokens_processed < requests[id].total_prompt_tokens)
        => \A order \in Orderings(DOMAIN running) :
              \E item \in ResultItems(ScheduleOutcome(order).result) :
                  item.request_id = id /\ item.is_prefill

\* C10: with preemption enabled, a schedule call that leaves the head of the
\* waiting queue unadmitted for lack of blocks, while budget is left and a
\* request of lower priority is running, returns a preempted request.
C10_PreemptsWhenBlocked ==
    (config.enable_preemption /\ pending = {} /\ \A id \in Ids : ~MustFinish(id))
    => \A order \in Orderings(DOMAIN running) :
          LET o == ScheduleOutcome(order)
              head == PeekWaiting(o.fcfs, o.heap)
          IN (/\ BudgetLeft(o.remaining_batch, o.remaining_budget)
              /\ head # <<>>
              /\ \E r \in DOMAIN running :
                    /\ r \in DOMAIN requests
                    /\ requests[r].priority < requests[head[1]].priority)
             => o.result.preempted_requests # <<>>

\* a request fits in the pool on its own: its prompt and the tokens it may
\* generate take no more blocks than the pool has
FitsPool(id) ==
    KvBlocksForTokens(requests[id].total_prompt_tokens + requests[id].max_tokens)
        <= config.max_blocks

\* between two steps, with nothing for the driver to finish, schedule returns
\* no work and changes nothing, so every later call does the same
ScheduleStuck ==
    /\ pending = {}
    /\ \A id \in Ids : ~MustFinish(id)
    /\ \A order \in Orderings(DOMAIN running) :
          LET o == ScheduleOutcome(order)
          IN /\ ~HasWork(o.result)
             /\ o.running = running /\ o.kv = kv_cache
             /\ o.fcfs = waiting_fcfs /\ o.heap = waiting_priority

\* C11: no deadlock when memory is tight: when every request fits in the pool
\* on its own, it never happens that requests remain running or waiting while
\* schedule returns no work now and in every later call.
C11_NoDeadlock ==
    ~(/\ DOMAIN requests # {}
      /\ \A id \in DOMAIN requests : FitsPool(id)
      /\ ScheduleStuck)

\* C12: allocate(n) is all-or-nothing: with fewer than n free blocks it returns
\* None and leaves the allocator as it was; otherwise it returns n distinct
\* ids that were free, and the free count drops by n.
C12_AllocateAllOrNothing ==
    \A n \in 0..MaxAllocN :
        LET r == AllocatorAllocate(alloc, n)
        IN IF AllocatorNumFree(alloc) < n
           THEN ~r.ok /\ r.alloc = alloc
           ELSE /\ r.ok
                /\ Len(r.ids) = n
                /\ NoRepeats(r.ids)
                /\ Range(r.ids) \subseteq Range(alloc.free_list)
                /\ AllocatorNumFree(r.alloc) = AllocatorNumFree(alloc) - n

\* the block ids that are not in the free pool
HeldIds(a) == (DOMAIN a.blocks) \ Range(a.free_list)

\* C13: allocate(n) followed by free_blocks of the returned ids restores the
\* free count and the allocated count, and the ids held otherwise stay held.
C13_AllocateThenFreeRestores ==
    \A n \in 0..MaxAllocN :
        AllocatorCanAllocate(alloc, n) =>
            LET r == AllocatorAllocate(alloc, n)
                b == AllocatorFreeBlocks(r.alloc, r.ids)
            IN /\ AllocatorNumFree(b) = AllocatorNumFree(alloc)
               /\ AllocatorNumAllocated(b) = AllocatorNumAllocated(alloc)
               /\ HeldIds(b) = HeldIds(alloc)

\* an allocator that holds a block, has taken back a block it had handed out,
\* and can hand out two more
C13_Witness ==
    /\ AllocatorNumAllocated(alloc) >= 1
    /\ HeldIds(alloc) # {}
    /\ \E i \in Range(alloc.free_list) : alloc.blocks[i].ref_count = 0
    /\ NoRepeats(alloc.free_list)
    /\ AllocatorCanAllocate(alloc, 2)

\* some block of the cache manager went back to the pool after it was handed out
SomeBlockReturned ==
    \E i \in Range(kv_cache.allocator.free_list) :
        kv_cache.allocator.blocks[i].ref_count = 0

\* C14: abort_request(id) returns true exactly when id was running; on an id
\* the scheduler does not know it returns false and changes nothing; a second
\* abort_request(id) right after returns false and changes nothing.
C14_AbortReturnsAndIdempotent ==
    [][\A id \in Ids :
          AbortRequest(id) =>
              /\ last_call'.ret = (id \in DOMAIN running)
              /\ id \notin KnownIds =>
                    /\ ~last_call'.ret
                    /\ UNCHANGED <<waiting_fcfs, waiting_priority, running,
                                   requests, kv_cache, next_sequence_id>>
              /\ LET s1 == [fcfs |-> waiting_fcfs', heap |-> waiting_priority',
                            running |-> running', requests |-> requests',
                            kv |-> kv_cache']
                     o2 == AbortOutcome(s1, id)
                 IN /\ ~o2.ret
                    /\ o2.fcfs = s1.fcfs /\ o2.heap = s1.heap
                    /\ o2.running = s1.running /\ o2.requests = s1.requests
                    /\ o2.kv = s1.kv]_vars

\* abort_request has returned true for a request that held blocks, while
\* another request is still known to the scheduler
C14_Witness ==
    /\ last_call.op = "abort_request" /\ last_call.ret
    /\ SomeBlockReturned
    /\ DOMAIN requests # {}

\* nothing of request id is left in the scheduler, the cache manager or the
\* last result
Gone(id) ==
    /\ id \notin DOMAIN requests
    /\ id \notin DOMAIN running
    /\ id \notin DOMAIN kv_cache.block_table
    /\ id \notin DOMAIN kv_cache.request_blocks
    /\ \A item \in ResultItems(result) \cup pending : item.request_id # id

\* C15: after abort_request(id), of a waiting or of a running request, id has
\* no metadata, no running state, no block table and no item in any result,
\* and the blocks it held are in the free pool (no block is allocated when it
\* was the only request); every later step keeps this until id is added again.
C15_AbortedStaysGone ==
    [][\A id \in Ids :
          /\ AbortRequest(id) =>
                /\ Gone(id)'
                /\ Range(KvGetBlockTable(kv_cache, id))
                      \subseteq Range(kv_cache'.allocator.free_list)
                /\ AllocatorNumFree(kv_cache'.allocator) =
                      AllocatorNumFree(kv_cache.allocator)
                          + Len(KvGetBlockTable(kv_cache, id))
                /\ (DOMAIN requests \subseteq {id} /\ DOMAIN running \subseteq {id})
                      => AllocatorNumAllocated(kv_cache'.allocator) = 0
          /\ (Gone(id) /\ id \notin DOMAIN requests') => Gone(id)']_vars

\* a request was aborted part-way through its chunked prefill, and its blocks
\* are back in the pool
C15_Witness ==
    /\ last_call.op = "abort_request" /\ last_call.ret
    /\ config.enable_chunked_prefill
    /\ \A p \in PromptLens : p > config.chunked_prefill_threshold
    /\ Gone(last_call.id)
    /\ SomeBlockReturned

\* C16: finish_request(id) on a running request removes its running state, its
\* metadata and its block table, and the free count rises by the number of
\* blocks it held; when no request is running any more the free count is
\* max_blocks.
C16_FinishFreesBlocks ==
    [][\A id \in Ids :
          (FinishRequest(id) /\ id \in DOMAIN running) =>
              /\ id \notin DOMAIN running'
              /\ id \notin DOMAIN requests'
              /\ id \notin DOMAIN kv_cache'.block_table
              /\ id \notin DOMAIN kv_cache'.request_blocks
              /\ Range(running[id].block_ids)
                    \subseteq Range(kv_cache'.allocator.free_list)
              /\ AllocatorNumFree(kv_cache'.allocator) =
                    AllocatorNumFree(kv_cache.allocator)
                        + Len(running[id].block_ids)
              /\ DOMAIN running' = {} =>
                    AllocatorNumFree(kv_cache'.allocator) = config.max_blocks]_vars

\* the last running request was finished and the whole pool is free again
C16_Witness ==
    /\ last_call.op = "finish_request"
    /\ SomeBlockReturned
    /\ DOMAIN running = {} /\ DOMAIN requests = {}
    /\ AllocatorNumFree(kv_cache.allocator) = config.max_blocks
    /\ config.max_blocks >= 2

\* C17: with preemption disabled, a schedule call that finds fewer free blocks
\* than the head of the waiting queue needs (ceil(want / block_size) with the
\* cache manager's block size) leaves that request at the head of the queue
\* with its metadata, admits and allocates nothing, leaves the free count as
\* it was, and returns the decode work only.
C17_BlockedHeadStaysWaiting ==
    [][(~config.enable_preemption
        /\ \E order \in Orderings(DOMAIN running) : Schedule(order))
       => LET head == PeekWaiting(waiting_fcfs, waiting_priority)
              decoded == Len(result'.decode_requests)
              budget == config.max_tokens_per_step - decoded
              batch == config.max_batch_size - decoded
          IN (/\ head # <<>>
              /\ IsWaiting(head[1])
              /\ BudgetLeft(batch, budget)
              /\ AllocatorNumFree(kv_cache.allocator)
                    < KvBlocksForTokens(PrefillTokens(requests[head[1]], budget)))
             => /\ PeekWaiting(waiting_fcfs', waiting_priority') = head
                /\ head[1] \in DOMAIN requests'
                /\ head[1] \notin DOMAIN running'
                /\ result'.prefill_requests = <<>>
                /\ result'.blocks_allocated = 0
                /\ AllocatorNumFree(kv_cache'.allocator)
                      = AllocatorNumFree(kv_cache.allocator)]_vars

\* C18: no scheduler or cache operation runs on a cache manager constructed
\* with block_size = 0 or max_blocks = 0: construction rejects such a
\* configuration.
C18_InvalidConfigRejected ==
    last_call.op # "new" => (config.block_size > 0 /\ config.max_blocks > 0)

\* C19: the blocks schedule allocates for a prefill of want tokens are
\* ceil(want / block_size), block_size being the cache manager's.
C19_BlocksByManagerBlockSize ==
    \A i \in 1..Len(result.prefill_requests) :
        LET item == result.prefill_requests[i]
        IN Len(item.block_ids) = KvBlocksForTokens(item.num_tokens)

\* C20: sequence ids are strictly increasing in the order of add_request: a
\* request that is added gets the counter's value, which is above the
\* sequence id of every request added before; no two requests share one; and
\* every scheduled item carries the sequence id its request was given.
C20_SequenceIds ==
    [][/\ next_sequence_id' >= next_sequence_id
       /\ \A id \in DOMAIN requests' :
             /\ requests'[id].sequence_id < next_sequence_id'
             /\ (id \notin DOMAIN requests \/ requests'[id] # requests[id]) =>
                   /\ requests'[id].sequence_id = next_sequence_id
                   /\ next_sequence_id' > next_sequence_id
                   /\ \A other \in DOMAIN requests :
                         requests[other].sequence_id < requests'[id].sequence_id
       /\ \A a, b \in DOMAIN requests' :
             a # b => requests'[a].sequence_id # requests'[b].sequence_id
       /\ \A item \in ResultItems(result') :
             item.request_id \in DOMAIN requests' =>
                 item.sequence_id = requests'[item.request_id].sequence_id]_vars

\* two requests, the one with the larger id added first, both with items in
\* the last result, a decode among them
C20_Witness ==
    /\ \E a, b \in DOMAIN requests :
          /\ a > b
          /\ requests[a].sequence_id < requests[b].sequence_id
          /\ \E x, y \in ResultItems(result) :
                x.request_id = a /\ y.request_id = b /\ ~x.is_prefill

\* the step is a schedule call
ScheduleStep == \E order \in Orderings(DOMAIN running) : Schedule(order)

\* C21: with an empty waiting queue and an empty running set, schedule returns
\* a result without decode, prefill or preempted items, with total_tokens = 0
\* and blocks_allocated = 0, has_work() is false on it, and the scheduler and
\* the cache manager are as before.
C21_EmptyScheduleIsEmpty ==
    [][(/\ ScheduleStep
        /\ waiting_fcfs = <<>> /\ waiting_priority = <<>>
        /\ DOMAIN running = {})
       => /\ result'.decode_requests = <<>>
          /\ result'.prefill_requests = <<>>
          /\ result'.preempted_requests = <<>>
          /\ result'.total_tokens = 0
          /\ result'.blocks_allocated = 0
          /\ ~HasWork(result')
          /\ UNCHANGED <<waiting_fcfs, waiting_priority, running, requests,
                         next_sequence_id, kv_cache>>]_vars

\* schedule has returned on a scheduler that requests went through and that
\* holds none now
C21_Witness ==
    /\ last_call.op = "schedule"
    /\ waiting_fcfs = <<>> /\ waiting_priority = <<>>
    /\ DOMAIN running = {} /\ DOMAIN requests = {}
    /\ next_sequence_id > 0
    /\ ~HasWork(result)
    /\ SomeBlockReturned

\* C22: every decode item carries a block table that covers the token it is
\* about to produce: block_ids has at least
\* ceil((num_computed_tokens + 1) / block_size) entries.
C22_DecodeTableCoversNextToken ==
    \A i \in 1..Len(result.decode_requests) :
        LET item == result.decode_requests[i]
        IN Len(item.block_ids)
              >= KvBlocksForTokens(item.num_computed_tokens + item.num_tokens)

\* C23: the decode phase visits the running requests in the order in which
\* they entered the running set, which under FCFS is the order of their
\* sequence ids: the decode items of a result are in that order.
C23_DecodeInInsertionOrder ==
    config.policy = FCFS =>
        \A i, j \in 1..Len(result.decode_requests) :
            i < j => result.decode_requests[i].sequence_id
                        < result.decode_requests[j].sequence_id

\* a decode-ready running request for whose next token schedule finds the
\* table too short and the pool without the blocks it lacks
SkippedForBlocks(run, kv, id) ==
    LET r == run[id]
        needed == BlocksNeededForTokens(r.num_tokens_processed + 1)
    IN /\ r.prefill_complete
       /\ needed > Len(r.block_ids)
       /\ AllocatorNumFree(kv.allocator) < needed - Len(r.block_ids)

\* the running requests the decode phase can emit
DecodeReady(run, kv) ==
    {id \in DOMAIN run : run[id].prefill_complete /\ ~SkippedForBlocks(run, kv, id)}

\* C24: a running request that the decode phase skips for lack of blocks
\* keeps its running state and its block table, has no item in the result,
\* and takes nothing from the budgets: the result counts the tokens of its
\* items only, and the running requests that can decode are all emitted when
\* the batch and the token budget have room for them.
C24_SkippedDecodeUntouched ==
    [][ScheduleStep =>
          \A id \in DOMAIN running :
              SkippedForBlocks(running, kv_cache, id) =>
                  /\ id \in DOMAIN running' /\ running'[id] = running[id]
                  /\ KvGetBlockTable(kv_cache', id) = KvGetBlockTable(kv_cache, id)
                  /\ \A item \in ResultItems(result') : item.request_id # id
                  /\ result'.total_tokens = SumTokens(ItemsOf(result'))
                  /\ LET ready == DecodeReady(running, kv_cache)
                     IN Cardinality(ready)
                            <= Min(config.max_batch_size, config.max_tokens_per_step)
                        => \A j \in ready :
                              \E item \in Range(result'.decode_requests) :
                                  item.request_id = j]_vars

\* schedule has skipped one running request for lack of blocks and emitted a
\* decode for another
C24_Witness ==
    /\ last_call.op = "schedule"
    /\ \E id \in DOMAIN running :
          /\ SkippedForBlocks(running, kv_cache, id)
          /\ \A item \in ResultItems(result) : item.request_id # id
    /\ result.decode_requests # <<>>

\* C25: schedule admits no request with zero tokens: every prefill item has
\* num_tokens >= 1.
C25_NoZeroTokenPrefill ==
    \A i \in 1..Len(result.prefill_requests) :
        result.prefill_requests[i].num_tokens >= 1

\* C26: a request id has an entry in the cache manager only with blocks in it.
C26_NoEmptyTable ==
    /\ \A id \in DOMAIN kv_cache.block_table : kv_cache.block_table[id] # <<>>
    /\ \A id \in DOMAIN kv_cache.request_blocks : kv_cache.request_blocks[id] # <<>>

IsPrefix(s1, s2) == Len(s1) <= Len(s2) /\ SubSeq(s2, 1, Len(s1)) = s1

\* C27: the block table of a request is append-only while it lives: over every
\* step the table before is a prefix of the table after, and the ids the call
\* returned, which the scheduler keeps, are the appended ones: the scheduler's
\* copy equals the table.
C27_TableAppendOnly ==
    [][/\ \A id \in (DOMAIN kv_cache.block_table) \cap (DOMAIN kv_cache'.block_table) :
             IsPrefix(kv_cache.block_table[id], kv_cache'.block_table[id])
       /\ \A id \in (DOMAIN kv_cache.request_blocks)
                        \cap (DOMAIN kv_cache'.request_blocks) :
             IsPrefix(kv_cache.request_blocks[id], kv_cache'.request_blocks[id])
       /\ \A id \in DOMAIN running' :
             running'[id].block_ids = KvGetBlockTable(kv_cache', id)]_vars

\* the driver has extended the table of a request that was admitted with one
\* block
C27_Witness ==
    /\ last_call.op = "update_after_step"
    /\ config.block_size = HardCodedBlockSize
    /\ last_call.id \in DOMAIN requests
    /\ requests[last_call.id].total_prompt_tokens <= config.block_size
    /\ Len(KvGetBlockTable(kv_cache, last_call.id)) >= 2

\* the total length of the tables of the requests in S
RECURSIVE SumLens(_, _)
SumLens(m, S) ==
    IF S = {} THEN 0
    ELSE LET x == CHOOSE x \in S : TRUE
         IN Len(m[x]) + SumLens(m, S \ {x})

\* C28: stats().allocated_blocks is the total length of the live block
\* tables, num_sequences the number of requests with a table, and
\* allocated_blocks + free_blocks = total_blocks; free(request_id) takes the
\* request's table length off allocated_blocks and one off num_sequences, and
\* changes nothing for a request without a table.
C28_StatsMatchTables ==
    [][/\ LET st == KvStats(kv_cache')
          IN /\ st.allocated_blocks
                   = SumLens(kv_cache'.block_table, DOMAIN kv_cache'.block_table)
             /\ st.num_sequences = Cardinality(DOMAIN kv_cache'.block_table)
             /\ st.allocated_blocks + st.free_blocks = st.total_blocks
       /\ \A id \in Ids :
             /\ ((FinishRequest(id) \/ AbortRequest(id))
                    /\ id \in DOMAIN running /\ id \in DOMAIN kv_cache.block_table)
                  => /\ KvStats(kv_cache').allocated_blocks
                           = KvStats(kv_cache).allocated_blocks
                               - Len(kv_cache.block_table[id])
                     /\ KvStats(kv_cache').num_sequences
                           = KvStats(kv_cache).num_sequences - 1
             /\ (id \notin DOMAIN kv_cache'.block_table
                    /\ id \notin DOMAIN kv_cache'.request_blocks)
                  => KvFree(kv_cache', id) = kv_cache']_vars

\* a request was finished and its blocks freed while another request keeps a
\* table of two blocks
C28_Witness ==
    /\ last_call.op = "finish_request"
    /\ SomeBlockReturned
    /\ \E id \in DOMAIN kv_cache.block_table : Len(kv_cache.block_table[id]) >= 2

\* C29: free(id) on a block that is free, or on an id out of range, changes
\* neither the free pool nor the allocated count.
C29_FreeIdempotent ==
    \A block_id \in FreeArgs :
        (block_id \in Range(alloc.free_list) \/ block_id \notin DOMAIN alloc.blocks)
        => LET b == AllocatorFree(alloc, block_id)
           IN /\ b.free_list = alloc.free_list
              /\ b.num_allocated = alloc.num_allocated

\* C30: from construction on, the reference count of a block is 0 exactly
\* when its id is in the free pool and at least 1 exactly when it is not.
C30_RefCountMatchesPool ==
    \A block_id \in DOMAIN alloc.blocks :
        /\ alloc.blocks[block_id].ref_count = 0
              <=> block_id \in Range(alloc.free_list)
        /\ alloc.blocks[block_id].ref_count >= 1
              <=> block_id \notin Range(alloc.free_list)

\* the block ids the cache manager added to the table of id in this step
NewBlockIds(id) ==
    LET old == KvGetBlockTable(kv_cache, id)
        new == KvGetBlockTable(kv_cache', id)
    IN SubSeq(new, Len(old) + 1, Len(new))

\* deltas and block ids update_after_step may be called with
Deltas == 0..2
BlockIdLists == {<<>>, <<0>>, <<1, 0>>}

QueuedIds ==
    IF config.policy = FCFS THEN Range(waiting_fcfs)
    ELSE {e.request_id : e \in Range(waiting_priority)}

\* a queue entry left behind by finish_request: its metadata is gone
Stale(id) == id \in QueuedIds /\ id \notin DOMAIN requests

\* what the budgets of the last result leave for one more item
ResultBudgetLeft(r) ==
    BudgetLeft(config.max_batch_size - Len(ItemsOf(r)),
               SatSub(config.max_tokens_per_step, r.total_tokens))

\* C32: finish_request and update_after_step on an id the scheduler does not
\* know change nothing in the scheduler or the cache; a request finished while
\* it waits is never admitted by a later schedule, and its leftover queue
\* entry does not keep the requests behind it from being looked at.
C32_UnknownIdsAndStaleEntries ==
    /\ [](\A id \in Ids : id \notin DOMAIN running =>
             \A dp \in Deltas, dg \in Deltas, ids \in BlockIdLists :
                 UpdateRunning(running, id, dp, dg, ids) = running)
    /\ [][/\ \A id \in Ids :
                FinishRequest(id) /\ id \notin KnownIds =>
                    UNCHANGED <<waiting_fcfs, waiting_priority, running, requests,
                                next_sequence_id, kv_cache>>
          /\ \A id \in Ids :
                FinishRequest(id) /\ IsWaiting(id) =>
                    /\ Stale(id)'
                    /\ UNCHANGED <<waiting_fcfs, waiting_priority, running, kv_cache>>
          /\ ScheduleStep =>
                /\ \A id \in Ids :
                      Stale(id) =>
                          /\ id \notin DOMAIN running'
                          /\ \A item \in ResultItems(result') : item.request_id # id
                /\ LET next == PeekWaiting(waiting_fcfs', waiting_priority')
                   IN next # <<>> /\ ResultBudgetLeft(result') =>
                          next[1] \in DOMAIN requests']_vars

\* finish_request has just left a stale entry at the head of the queue, with a
\* waiting request behind it
C32_Witness ==
    /\ last_call.op = "finish_request"
    /\ LET next == PeekWaiting(waiting_fcfs, waiting_priority)
       IN /\ next # <<>>
          /\ next[1] = last_call.id
          /\ Stale(next[1])
    /\ WaitingIds # {}

\* Scheduler::waiting_count
WaitingCount(fcfs, heap) ==
    IF config.policy = FCFS THEN Len(fcfs) ELSE Len(heap)

\* C33: schedule returns from every state: its decode loop takes each running
\* request at most once, and every pass of its prefill loop either removes one
\* entry of the waiting queue or is the last, so that the loop is entered at
\* most (length of the waiting queue + 1) times.
C33_ScheduleLoopsBounded ==
    \A order \in Orderings(DOMAIN running) :
        LET o == ScheduleOutcome(order)
            before == WaitingCount(waiting_fcfs, waiting_priority)
            after == WaitingCount(o.fcfs, o.heap)
        IN /\ o.decode_visits <= Cardinality(DOMAIN running)
           /\ Len(o.result.decode_requests) <= o.decode_visits
           /\ o.prefill_iterations <= before + 1
           /\ o.prefill_iterations <= (before - after) + 1
           /\ before - after <= o.prefill_iterations

\* a schedule call that empties the waiting queue and then finds it empty,
\* after its decode loop has taken a running request
C33_Witness ==
    /\ pending = {}
    /\ WaitingCount(waiting_fcfs, waiting_priority) >= 1
    /\ DOMAIN running # {}
    /\ \E order \in Orderings(DOMAIN running) :
          LET o == ScheduleOutcome(order)
          IN /\ o.prefill_iterations =
                    WaitingCount(waiting_fcfs, waiting_priority) + 1
             /\ o.decode_visits >= 1

\* the blocks the decode items of a result still lack for their next token,
\* as the decode phase computes them (lines 274-276)
RECURSIVE DecodeBlocksRequired(_)
DecodeBlocksRequired(items) ==
    IF items = <<>> THEN 0
    ELSE SatSub(BlocksNeededForTokens(Head(items).num_computed_tokens
                                      + Head(items).num_tokens),
                Len(Head(items).block_ids))
         + DecodeBlocksRequired(Tail(items))

\* C34: one schedule call does not commit more blocks than were free when it
\* began: the blocks its decode items still lack, plus the blocks it allocated
\* to the prefill items it admitted, are no more than that number.
C34_NoOverCommit ==
    [][ScheduleStep =>
          DecodeBlocksRequired(result'.decode_requests) + result'.blocks_allocated
              <= AllocatorNumFree(kv_cache.allocator)]_vars

\* the request ids of the items of a result, decode items first
ItemIds(r) == [i \in 1..Len(ItemsOf(r)) |-> ItemsOf(r)[i].request_id]

\* C35: no request id is twice in a ScheduleResult, in one of its lists or
\* across the two, also when the id was given to add_request more than once.
C35_NoIdTwiceInResult ==
    /\ NoRepeats(ItemIds(result))
    /\ \A order \in Orderings(DOMAIN running) :
          NoRepeats(ItemIds(ScheduleOutcome(order).result))

\* schedule has emitted a running request that was added a second time while
\* it ran, and has popped the queue entry of the second add_request
C35_Witness ==
    /\ last_call.op = "schedule"
    /\ \E id \in (DOMAIN running) \cap (DOMAIN requests) :
          /\ requests[id].sequence_id # running[id].sequence_id
          /\ id \notin QueuedIds
          /\ \E item \in ResultItems(result) : item.request_id = id

\* the blocks a step has put back on the free list
BlocksFreed == Range(kv_cache'.allocator.free_list) \ Range(kv_cache.allocator.free_list)

\* C36: with a driver that passes to update_after_step the ids extend
\* returned, the block list the scheduler keeps for a running request is the
\* cache manager's block table of that request, at admission and after every
\* update, and finish_request and abort_request free the blocks of that list.
C36_SchedulerCopyIsTable ==
    /\ [](/\ \A id \in DOMAIN running :
                running[id].block_ids = KvGetBlockTable(kv_cache, id)
          /\ \A item \in ResultItems(result) :
                item.request_id \in DOMAIN running =>
                    IsPrefix(item.block_ids, KvGetBlockTable(kv_cache, item.request_id)))
    /\ [][\A id \in DOMAIN running :
             FinishRequest(id) \/ AbortRequest(id) =>
                 /\ BlocksFreed = Range(running[id].block_ids)
                 /\ id \notin DOMAIN kv_cache'.block_table]_vars

\* the driver has reported a decode step for which it extended the table, and
\* the scheduler's list has the block extend returned
C36_Witness ==
    /\ last_call.op = "update_after_step"
    /\ last_call.id \in DOMAIN running
    /\ running[last_call.id].num_tokens_generated >= 1
    /\ Len(running[last_call.id].block_ids) >= 2
    /\ running[last_call.id].block_ids = KvGetBlockTable(kv_cache, last_call.id)

\* the summed lengths of the block lists of a sequence of items
RECURSIVE SumBlockIds(_)
SumBlockIds(items) ==
    IF items = <<>> THEN 0
    ELSE Len(Head(items).block_ids) + SumBlockIds(Tail(items))

\* C37: in the result of a schedule call total_tokens is the sum of num_tokens
\* over its decode and prefill items, and blocks_allocated is the number of
\* blocks by which the free count went down during the call, which is the
\* summed length of the block tables of the prefill items it admitted.
C37_ResultBookkeepingExact ==
    [][ScheduleStep =>
          /\ result'.total_tokens = SumTokens(ItemsOf(result'))
          /\ result'.blocks_allocated =
                 AllocatorNumFree(kv_cache.allocator)
                     - AllocatorNumFree(kv_cache'.allocator)
          /\ result'.blocks_allocated = SumBlockIds(result'.prefill_requests)
          /\ \A item \in Range(result'.prefill_requests) :
                item.block_ids = KvGetBlockTable(kv_cache', item.request_id)]_vars

\* a result with a decode item and a prefill item for which blocks were
\* allocated
C37_Witness ==
    /\ last_call.op = "schedule"
    /\ result.decode_requests # <<>>
    /\ result.prefill_requests # <<>>
    /\ result.blocks_allocated >= 1
    /\ result.total_tokens > Len(ItemsOf(result))

\* Scheduler::has_pending_work
HasPendingWork(fcfs, heap, run) ==
    WaitingCount(fcfs, heap) > 0 \/ Cardinality(DOMAIN run) > 0

\* the place of the first entry of id in the FCFS queue
FcfsPos(id) ==
    CHOOSE i \in 1..Len(waiting_fcfs) :
        waiting_fcfs[i] = id /\ \A j \in 1..(i - 1) : waiting_fcfs[j] # id

\* the entry of id in the priority queue
HeapEntry(id) == CHOOSE e \in Range(waiting_priority) : e.request_id = id

\* a is taken from the waiting queue no later than w: it stands before w in
\* the FCFS queue, or w is not greater than a in the order of the heap
AheadInQueue(a, w) ==
    IF config.policy = FCFS THEN FcfsPos(a) < FcfsPos(w)
    ELSE PriorityRequestCmp(HeapEntry(w), HeapEntry(a)) <= 0

\* the blocks schedule asks for the first chunk of a waiting request when the
\* whole token budget is left (lines 330-343)
FirstChunkBlocks(id) ==
    BlocksNeededForTokens(PrefillTokens(requests[id], config.max_tokens_per_step))

====
